---- MODULE Spec2Model ----
(***************************************************************************)
(* Model of the Allen calcium-imaging pseudomouse datasets                 *)
(*   cebra/datasets/allen/ca_movie.py          (AllenCaMovieDataset)       *)
(*   cebra/datasets/allen/ca_movie_decoding.py (AllenCaMoviesDataset,      *)
(*                                    AllenCaMoviesDisjointDataset)        *)
(* A dataset object is built by its constructor in stages: the pseudomouse *)
(* matrix is assembled from the summary table and the trace files, neuron  *)
(* rows are sampled with a seeded generator, and the time axis is split    *)
(* into repeats.  A matrix is modelled by the provenance of its rows and   *)
(* columns, not by its values.                                             *)
(***************************************************************************)
EXTENDS Integers, Sequences, FiniteSets, TLC

\* ---- bounds of the model ----
MaxId == 2          \* neuron ids are 1..MaxId
MaxRows == 4        \* a container has 2..MaxRows rows in the summary table
MaxContainers == 2  \* containers are 1..MaxContainers
MaxCommon == 3      \* size of the session lists in the sampling inputs
MaxSeed == 2        \* seeds are 0..MaxSeed
MaxK == 4           \* num_neurons is 1..MaxK
MaxT == 21          \* number of recorded timesteps is 0..MaxT

\* ---- program constants ----
NumRepeats == 10    \* int(pseudo_mice.shape[1] / 10)
TrainRepeats == 9   \* frame_feature.repeat(9, 1)
TestRepeats == 1    \* frame_feature.repeat(1, 1)
MovieRepeats == 10  \* frame_feature.repeat(10, 1) in ca_movie.py
NumSessions == 3    \* neurons.iloc[0], .iloc[1], .iloc[2]; indices has 3 entries

VARIABLES
    summary,          \* data_summary.csv: a sequence of rows
    list_mice,        \* container ids that have a .mat file in the area directory
    timesteps,        \* number of columns of every trace matrix (shape[1])
    frame_feature,    \* the per-frame labels of one repeat
    cache,            \* data["neural"] of the preload file
    cfg,              \* the constructor's arguments
    pc,               \* position of the constructor
    err,              \* the exception raised, or "none"
    pseudo_mice,      \* [built, rows]: the matrix returned by _get_pseudo_mice
    indices,          \* per processed container, the three position lists
    used,             \* summary rows whose neuron list entered a common set
    movie_len,        \* self.movie_len
    sampler,          \* state of the Generator created by the last sampling
    neurons_indices,  \* self.neurons_indices
    neural,           \* [built, neurons, frames]: self.neural (time x neuron)
    index,            \* self.index, the label rows
    prev              \* the previously constructed dataset of the same process

vars == <<summary, list_mice, timesteps, frame_feature, cache, cfg, pc, err,
          pseudo_mice, indices, used, movie_len, sampler, neurons_indices,
          neural, index, prev>>

\* ---------------------------------------------------------------------
\* Generic helpers
\* ---------------------------------------------------------------------
Min(a, b) == IF a < b THEN a ELSE b
Max(a, b) == IF a > b THEN a ELSE b

RECURSIVE Concat(_)
Concat(ss) == IF ss = <<>> THEN <<>> ELSE Head(ss) \o Concat(Tail(ss))

RECURSIVE SortedSeq(_)
\* list.sort() of a list of distinct integers, given as a set
SortedSeq(S) ==
    IF S = {} THEN <<>>
    ELSE LET m == CHOOSE x \in S : \A y \in S : x <= y
         IN <<m>> \o SortedSeq(S \ {m})

RECURSIVE SumOver(_, _)
SumOver(S, f) ==
    IF S = {} THEN 0
    ELSE LET x == CHOOSE y \in S : TRUE IN f[x] + SumOver(S \ {x}, f)

\* every order in which the elements of a finite set can be iterated
Orders(S) ==
    {o \in [1..Cardinality(S) -> S] : \A i, j \in DOMAIN o : o[i] = o[j] => i = j}

\* str.contains(sub) for a pattern without regex metacharacters
Contains(s, sub) ==
    \E i \in 1..(Len(s) - Len(sub) + 1) : SubSeq(s, i, i + Len(sub) - 1) = sub

\* ---------------------------------------------------------------------
\* The summary table and _convert_to_nums
\* ---------------------------------------------------------------------
Digits == <<"0", "1", "2", "3", "4", "5", "6", "7", "8", "9">>
DigitVal(ch) == (CHOOSE d \in 1..10 : Digits[d] = ch) - 1

RECURSIVE RemoveChars(_, _)
\* str.replace(c, "") for every c of chars
RemoveChars(s, chars) ==
    IF s = <<>> THEN <<>>
    ELSE IF Head(s) \in chars THEN RemoveChars(Tail(s), chars)
    ELSE <<Head(s)>> \o RemoveChars(Tail(s), chars)

RECURSIVE SplitWs(_, _, _)
\* str.split(): the maximal runs of non-blank characters
SplitWs(s, cur, acc) ==
    IF s = <<>> THEN (IF cur = <<>> THEN acc ELSE Append(acc, cur))
    ELSE IF Head(s) = " "
         THEN SplitWs(Tail(s), <<>>, IF cur = <<>> THEN acc ELSE Append(acc, cur))
         ELSE SplitWs(Tail(s), Append(cur, Head(s)), acc)

RECURSIVE ToInt(_, _)
\* int(token) of a token of decimal digits
ToInt(tok, v) ==
    IF tok = <<>> THEN v ELSE ToInt(Tail(tok), 10 * v + DigitVal(Head(tok)))

_convert_to_nums(string) ==
    LET toks == SplitWs(RemoveChars(string, {"\n", "[", "]"}), <<>>, <<>>)
    IN [i \in 1..Len(toks) |-> ToInt(toks[i], 0)]

\* the string numpy prints for an id list: "[1 2\n 3]" (one-digit ids; the
\* line is wrapped before the third element)
StrOfIds(ids) ==
    <<"[">> \o
    Concat([j \in 1..Len(ids) |->
              (IF j = 1 THEN <<>> ELSE IF j = 3 THEN <<"\n", " ">> ELSE <<" ">>)
              \o <<Digits[ids[j] + 1]>>])
    \o <<"]">>

SSt == <<"S", "S", "t">>
Pvalb == <<"P", "v", "a", "l", "b">>
Vip == <<"V", "i", "p">>

\* the row filter of area_filtered
PassesFilter(row, area) ==
    /\ row.exp \in list_mice
    /\ row.target = area
    /\ ~Contains(row.cre_line, SSt)
    /\ ~Contains(row.cre_line, Pvalb)
    /\ ~Contains(row.cre_line, Vip)

\* set(area_filtered["exp"])
FilteredContainers ==
    {summary[i].exp : i \in {j \in DOMAIN summary : PassesFilter(summary[j], cfg.area)}}

\* summary[summary["exp"] == exp_container]: the row numbers, in table order
RowsOf(c) ==
    LET S == {i \in DOMAIN summary : summary[i].exp = c} IN SortedSeq(S)

\* the column "session_type" of those rows
SessionsOf(c) ==
    LET rows == RowsOf(c) IN <<>> \o [j \in DOMAIN rows |-> summary[rows[j]].session_type]

\* the column "neurons" of those rows, each entry parsed by _convert_to_nums
NeuronsOf(c) ==
    LET rows == RowsOf(c)
    IN <<>> \o [j \in DOMAIN rows |-> <<>> \o _convert_to_nums(summary[rows[j]].neurons)]

\* np.array(list(sessions)).argsort(), 1-based: entry n is the row (within the
\* container's rows) holding the n-th smallest session type
Argsort(types) ==
    <<>> \o [n \in 1..Len(types) |->
               CHOOSE i \in 1..Len(types) :
                   Cardinality({j \in 1..Len(types) : types[j] < types[i]}) = n - 1]

\* seq_sessions as it would be if only the three rows that are read with
\* .iloc were ranked
seq_sessions_of_three(sessions) ==
    Argsort(SubSeq(sessions, 1, Min(Len(sessions), NumSessions)))
seq_sessions(sessions) == Argsort(sessions)

ToSet(s) == {s[i] : i \in DOMAIN s}

\* set.intersection of the first three rows' id sets
common_neurons(neurons) == ToSet(neurons[1]) \cap ToSet(neurons[2]) \cap ToSet(neurons[3])

\* list.index(x), 0-based: the first position holding x
IndexOf(list, x) ==
    (CHOOSE p \in DOMAIN list : list[p] = x /\ \A q \in 1..(p - 1) : list[q] # x) - 1

\* [list.index(x) for x in common_neurons] followed by .sort(): after the sort
\* the list no longer depends on the iteration order of the set
Positions(list, common) == SortedSeq({IndexOf(list, x) : x \in common})

\* indices = [indices1, indices2, indices3]
Indices(neurons) ==
    LET common == common_neurons(neurons)
    IN <<Positions(neurons[1], common), Positions(neurons[2], common),
         Positions(neurons[3], common)>>

\* neurons.iloc[1] or neurons.iloc[2] is out of bounds
IlocOutOfBounds(neurons) == Len(neurons) < NumSessions
\* indices[i] is out of range for some i of seq_sessions
IndicesOutOfRange(seq) == \E n \in DOMAIN seq : seq[n] > NumSessions

\* traces[...][n, 0][indices[i], :] with i = seq_sessions[n]: the n-th trace
\* matrix of the file is the recording of the n-th session type, so its rows
\* are the neurons of the container's row i
SessionRows(c, n, seq, ix, neurons) ==
    LET i == seq[n]
        src == RowsOf(c)[i]
    IN <<>> \o [p \in DOMAIN ix[i] |->
                  [exp |-> c, session |-> n, row |-> ix[i][p], src |-> src,
                   id |-> neurons[i][ix[i][p] + 1]]]

\* a block holding the aligned rows of the first session only
FirstSessionOnly(c, seq, ix, neurons) == SessionRows(c, 1, seq, ix, neurons)
\* "for n, i in enumerate(seq_sessions): pseudo_mouse.append(session)": the
\* rows one container adds to pseudo_mouse
ContainerBlock(c, seq, ix, neurons) ==
    Concat([n \in DOMAIN seq |-> SessionRows(c, n, seq, ix, neurons)])

\* the summary rows whose neuron lists are intersected
CommonRows(c) == {RowsOf(c)[j] : j \in 1..NumSessions}

RECURSIVE Build(_, _)
\* the loop "for exp_container in set(area_filtered["exp"])", iterating the
\* set in the order `order`; acc is what the loop has produced so far
Build(order, acc) ==
    IF order = <<>> THEN acc
    ELSE LET c == Head(order)
             neurons == NeuronsOf(c)
             seq == seq_sessions(SessionsOf(c))
             ix == Indices(neurons)
         IN
         IF IlocOutOfBounds(neurons) THEN [acc EXCEPT !.err = "IndexError"]
         ELSE LET acc1 == [acc EXCEPT !.used = @ \cup CommonRows(c),
                                      !.indices = @ @@ (c :> ix)]
              IN IF IndicesOutOfRange(seq) THEN [acc1 EXCEPT !.err = "IndexError"]
                 ELSE Build(Tail(order),
                            [acc1 EXCEPT !.rows = @ \o ContainerBlock(c, seq, ix, neurons)])

NoIndices == [c \in {} |-> <<>>]
NoMatrix == [built |-> FALSE, rows |-> <<>>]
NoNeural == [built |-> FALSE, neurons |-> <<>>, frames |-> <<>>]
NoPrev == [built |-> FALSE]

\* _get_pseudo_mice of AllenCaMovieDataset and AllenCaMoviesDataset; an empty
\* list of blocks makes np.concatenate raise
PseudoMouse(order) ==
    LET r == Build(order, [err |-> "none", rows |-> <<>>, used |-> {}, indices |-> NoIndices])
    IN IF r.err = "none" /\ order = <<>> THEN [r EXCEPT !.err = "ValueError"] ELSE r

GetPseudoMice ==
    /\ pc = "start"
    /\ cfg.cls \in {"movie", "movies"}
    /\ ~cfg.preload
    /\ \E order \in Orders(FilteredContainers) :
         LET r == PseudoMouse(order) IN
           /\ err' = r.err
           /\ used' = r.used
           /\ indices' = r.indices
           /\ pseudo_mice' = IF r.err = "none" THEN [built |-> TRUE, rows |-> r.rows]
                             ELSE NoMatrix
           /\ pc' = IF r.err = "none" THEN "pseudo" ELSE "error"
    /\ UNCHANGED <<summary, list_mice, timesteps, frame_feature, cache, cfg,
                   movie_len, sampler, neurons_indices, neural, index, prev>>

\* _get_pseudo_mice of AllenCaMoviesDisjointDataset: np.vstack of the events
\* of one session (session A, the first trace matrix) of every .mat file, in
\* the order glob lists the files; no file makes np.vstack raise
SessionAEvents(c) ==
    LET seq == seq_sessions(SessionsOf(c))
        list == NeuronsOf(c)[seq[1]]
    IN <<>> \o [p \in DOMAIN list |->
                  [exp |-> c, session |-> 1, row |-> p - 1, src |-> RowsOf(c)[seq[1]],
                   id |-> list[p]]]

GetPseudoMiceDisjoint ==
    /\ pc = "start"
    /\ cfg.cls = "disjoint"
    /\ \E order \in Orders(list_mice) :
         IF order = <<>>
         THEN /\ err' = "ValueError"
              /\ pseudo_mice' = NoMatrix
              /\ pc' = "error"
         ELSE /\ err' = "none"
              /\ pseudo_mice' = [built |-> TRUE,
                                 rows |-> Concat([n \in DOMAIN order |-> SessionAEvents(order[n])])]
              /\ pc' = "pseudo"
    /\ UNCHANGED <<summary, list_mice, timesteps, frame_feature, cache, cfg, indices,
                   used, movie_len, sampler, neurons_indices, neural, index, prev>>

\* ---------------------------------------------------------------------
\* The seeded generator.  PCG64's 128-bit linear congruential state is
\* modelled by an 8-bit one; a bounded draw takes the high bits of the state.
\* ---------------------------------------------------------------------
\* a generator that carries on from the state the last generator was left in
PCG64_shared(seed) == sampler
\* PCG64(seed): the state of a freshly seeded generator
PCG64(seed) == (seed * 37 + 11) % 256

Advance(s) == (s * 77 + 55) % 256
\* an integer of 0..n-1 drawn in state s
Bounded(s, n) == (s \div 8) % n

RECURSIVE Draws(_, _, _)
\* k bounded draws, and the state they leave
Draws(s, n, k) ==
    IF k = 0 THEN [out |-> <<>>, state |-> s]
    ELSE LET s1 == Advance(s)
             rest == Draws(s1, n, k - 1)
         IN [out |-> <<Bounded(s1, n)>> \o rest.out, state |-> rest.state]

\* sampler.choice(np.arange(n), size=k): with replacement; an empty population
\* raises unless no sample is taken
choice(s, n, k) ==
    IF n = 0 /\ k > 0 THEN [err |-> "ValueError", out |-> <<>>, state |-> s]
    ELSE [err |-> "none"] @@ Draws(s, n, k)

RECURSIVE Shuffle(_, _, _)
\* Generator.shuffle: for i = n-1 down to 1, swap x[i] with x[j], j drawn in 0..i
Shuffle(x, s, i) ==
    IF i < 1 THEN [out |-> x, state |-> s]
    ELSE LET s1 == Advance(s)
             j == Bounded(s1, i + 1)
         IN Shuffle([x EXCEPT ![i + 1] = x[j + 1], ![j + 1] = x[i + 1]], s1, i - 1)

\* sampler.permutation(n)
permutation(s, n) == Shuffle([i \in 1..n |-> i - 1], s, n - 1)

\* two sections that share the middle element of an odd-length array
array_split_overlapping(x) ==
    LET n == Len(x)
    IN <<SubSeq(x, 1, (n \div 2) + (n % 2)), SubSeq(x, n \div 2 + 1, n)>>
\* np.array_split(x, 2): the first section takes the extra element
array_split(x) ==
    LET n == Len(x)
        h == (n \div 2) + (n % 2)
    IN <<SubSeq(x, 1, h), SubSeq(x, h + 1, n)>>

\* x[:k] for k >= 0
Prefix(x, k) == SubSeq(x, 1, Min(k, Len(x)))

\* AllenCaMoviesDataset._sample_neurons, and the same two statements in
\* AllenCaMovieDataset.__init__; the decoding dataset sets movie_len first
SampleNeurons ==
    /\ pc = "pseudo"
    /\ cfg.cls \in {"movie", "movies"}
    /\ LET r == choice(PCG64(cfg.seed), Len(pseudo_mice.rows), cfg.num_neurons) IN
         /\ err' = r.err
         /\ sampler' = r.state
         /\ neurons_indices' = r.out
         /\ pc' = IF r.err = "none" THEN "sampled" ELSE "error"
    /\ movie_len' = IF cfg.cls = "movies" THEN timesteps \div NumRepeats ELSE movie_len
    /\ UNCHANGED <<summary, list_mice, timesteps, frame_feature, cache, cfg,
                   pseudo_mice, indices, used, neural, index, prev>>

\* AllenCaMoviesDisjointDataset._sample_neurons
SampleNeuronsDisjoint ==
    /\ pc = "pseudo"
    /\ cfg.cls = "disjoint"
    /\ LET permuted_neurons == permutation(PCG64(cfg.seed), Len(pseudo_mice.rows)) IN
         /\ sampler' = permuted_neurons.state
         /\ neurons_indices' =
                Prefix(array_split(permuted_neurons.out)[cfg.group + 1], cfg.num_neurons)
    /\ movie_len' = timesteps \div NumRepeats
    /\ pc' = "sampled"
    /\ UNCHANGED <<summary, list_mice, timesteps, frame_feature, cache, cfg, err,
                   pseudo_mice, indices, used, neural, index, prev>>

\* ---------------------------------------------------------------------
\* _split
\* ---------------------------------------------------------------------
\* the column numbers start, start+1, .., stop-1
Range(start, stop) == [i \in 1..(stop - start) |-> start + i - 1]

\* a[start:stop] on an axis of length n: negative bounds count from the end,
\* and both bounds are clipped to the axis
SliceBound(x, n) == IF x < 0 THEN Max(x + n, 0) ELSE Min(x, n)
PySlice(start, stop, n) == Range(SliceBound(start, n), SliceBound(stop, n))

\* the slice taken with a 0-based repeat number
TestColumnsZeroBased(r, ml, n) == PySlice(r * ml, (r + 1) * ml, n)
\* (self.test_repeat - 1) * self.movie_len : self.test_repeat * self.movie_len
TestColumns(r, ml, n) == PySlice((r - 1) * ml, r * ml, n)

\* the train block: the repeats other than the held-out one, in order
TrainColumns(r, ml) ==
    Concat([b \in 1..NumRepeats |-> IF b = r THEN <<>> ELSE Range((b - 1) * ml, b * ml)])

\* frame_feature.repeat(n, 1): the label rows tiled n times
Repeat(x, n) == Concat([i \in 1..n |-> x])

\* pseudo_mice[self.neurons_indices]
Sampled == <<>> \o [p \in DOMAIN neurons_indices |-> pseudo_mice.rows[neurons_indices[p] + 1]]

Split ==
    /\ pc = "sampled"
    /\ cfg.cls \in {"movies", "disjoint"}
    /\ IF cfg.split_flag = "train"
       THEN /\ neural' = [built |-> TRUE, neurons |-> Sampled,
                          frames |-> TrainColumns(cfg.test_repeat, movie_len)]
            /\ index' = Repeat(frame_feature, TrainRepeats)
            /\ pc' = "done"
            /\ err' = err
       ELSE IF cfg.split_flag = "test"
       THEN /\ neural' = [built |-> TRUE, neurons |-> Sampled,
                          frames |-> TestColumns(cfg.test_repeat, movie_len, timesteps)]
            /\ index' = Repeat(frame_feature, TestRepeats)
            /\ pc' = "done"
            /\ err' = err
       ELSE /\ err' = "ValueError"
            /\ pc' = "error"
            /\ UNCHANGED <<neural, index>>
    /\ UNCHANGED <<summary, list_mice, timesteps, frame_feature, cache, cfg,
                   pseudo_mice, indices, used, movie_len, sampler, neurons_indices, prev>>

\* the rest of AllenCaMovieDataset.__init__ (without pca): every column of
\* the sampled rows, and _get_index
GetIndex ==
    /\ pc = "sampled"
    /\ cfg.cls = "movie"
    /\ neural' = [built |-> TRUE, neurons |-> Sampled, frames |-> Range(0, timesteps)]
    /\ index' = Repeat(frame_feature, MovieRepeats)
    /\ pc' = "done"
    /\ UNCHANGED <<summary, list_mice, timesteps, frame_feature, cache, cfg, err,
                   pseudo_mice, indices, used, movie_len, sampler, neurons_indices, prev>>

\* the preload branch of AllenCaMoviesDataset.__init__: the tensor of the
\* file is taken as it is; every split_flag but "train" gets the test labels
LoadPreload ==
    /\ pc = "start"
    /\ cfg.cls = "movies"
    /\ cfg.preload
    /\ neural' = cache
    /\ index' = IF cfg.split_flag = "train" THEN Repeat(frame_feature, TrainRepeats)
                ELSE Repeat(frame_feature, TestRepeats)
    /\ pc' = "done"
    /\ UNCHANGED <<summary, list_mice, timesteps, frame_feature, cache, cfg, err,
                   pseudo_mice, indices, used, movie_len, sampler, neurons_indices, prev>>

\* the caller builds the next dataset of a pair (the train and the test
\* dataset, or the two groups) with the same seed and num_neurons
Reconstruct ==
    /\ pc = "done"
    /\ ~prev.built
    /\ prev' = [built |-> TRUE, cfg |-> cfg, neurons_indices |-> neurons_indices,
                shape0 |-> Len(pseudo_mice.rows)]
    /\ \E g \in (IF cfg.cls = "disjoint" THEN {0, 1} ELSE {cfg.group}),
          sf \in (IF cfg.cls = "movie" THEN {cfg.split_flag} ELSE {"train", "test"}) :
         cfg' = [cfg EXCEPT !.group = g, !.split_flag = sf]
    /\ pc' = "start"
    /\ pseudo_mice' = NoMatrix
    /\ indices' = NoIndices
    /\ used' = {}
    /\ movie_len' = 0
    /\ neurons_indices' = <<>>
    /\ neural' = NoNeural
    /\ index' = <<>>
    /\ UNCHANGED <<summary, list_mice, timesteps, frame_feature, cache, err, sampler>>

\* ---------------------------------------------------------------------
\* Inputs
\* ---------------------------------------------------------------------
Area == "VISp"
Cux2 == <<"C", "u", "x", "2">>

InjSeqs(S, n) == {s \in [1..n -> S] : \A i, j \in 1..n : s[i] = s[j] => i = j}

\* session id lists: every order of MaxId-1 or MaxId distinct ids
SessLists == InjSeqs(1..MaxId, MaxId - 1) \cup InjSeqs(1..MaxId, MaxId)
\* the lists among them that are in ascending order
AscendingLists == {l \in SessLists : \A i, j \in DOMAIN l : i < j => l[i] < l[j]}

\* session_type is the rank of the tag among three_session_A < three_session_B
\* < three_session_C < three_session_C2 < ...
Row(c, cre, stype, ids) ==
    [exp |-> c, target |-> Area, cre_line |-> cre, session_type |-> stype,
     neurons |-> StrOfIds(ids)]

\* container 1: three sessions A, B, C; the first lists its neurons in
\* ascending order, the other two in any order
FirstContainer(f) == [j \in 1..NumSessions |-> Row(1, Cux2, j, f[j])]

\* container 2: n rows with the id list [1], in table order A,B,C,.. or
\* reversed; all rows carry the tag `base` except row `odd`, which carries
\* the other kind of tag; `present` says whether the container has a .mat file
Shapes ==
    {[present |-> FALSE, n |-> NumSessions, odd |-> 0, base |-> Cux2, rev |-> FALSE]}
    \cup {[present |-> TRUE, n |-> n, odd |-> odd, base |-> base, rev |-> FALSE] :
            n \in 2..MaxRows, odd \in 0..MaxRows, base \in {Cux2, Vip}}
    \cup {[present |-> TRUE, n |-> n, odd |-> 0, base |-> Cux2, rev |-> TRUE] :
            n \in 2..MaxRows}

ShapeRows(c, sh) ==
    [j \in 1..sh.n |->
        Row(c, IF j = sh.odd THEN (IF sh.base = Cux2 THEN Pvalb ELSE Cux2) ELSE sh.base,
            IF sh.rev THEN sh.n + 1 - j ELSE j, <<1>>)]

\* containers 3, 4, ..: three sessions C, B, A with the id list [1]
PlainRows(c) == [j \in 1..NumSessions |-> Row(c, Cux2, NumSessions + 1 - j, <<1>>)]

DefaultCfg ==
    [cls |-> "movies", area |-> Area, num_neurons |-> 1, seed |-> 0,
     split_flag |-> "train", test_repeat |-> NumRepeats, group |-> 0,
     preload |-> FALSE]

PseudoInputs ==
    {[summary |-> FirstContainer(f) \o ShapeRows(2, sh)
                    \o Concat([k \in 1..np |-> PlainRows(k + 2)]),
      list_mice |-> {1} \cup (IF sh.present THEN {2} ELSE {}) \cup {k + 2 : k \in 1..np},
      timesteps |-> NumRepeats,
      cfg |-> DefaultCfg,
      cache |-> NoNeural] :
        f \in {g \in [1..NumSessions -> SessLists] : g[1] \in AscendingLists},
        sh \in {x \in Shapes : x.odd <= x.n},
        np \in 0..(MaxContainers - 2)}

\* tables for the sampling runs: c containers, each with three sessions
\* listing the neurons 1..m
SizedTable(c, m) ==
    Concat([k \in 1..c |-> [j \in 1..NumSessions |-> Row(k, Cux2, j, [i \in 1..m |-> i])]])

SampleCfgs ==
    {[DefaultCfg EXCEPT !.cls = cls, !.seed = seed, !.num_neurons = k, !.group = g] :
        cls \in {"movie", "movies", "disjoint"}, seed \in 0..MaxSeed, k \in 1..MaxK,
        g \in {0, 1}}

SampleInputs ==
    {[summary |-> SizedTable(c, m), list_mice |-> 1..c, timesteps |-> NumRepeats,
      cfg |-> cf, cache |-> NoNeural] :
        c \in 1..MaxContainers, m \in 0..MaxCommon,
        cf \in {x \in SampleCfgs : x.cls = "disjoint" \/ x.group = 0}}

\* a preload file written by an earlier build of the train or the test
\* dataset with the tenth repeat held out
Caches(t) ==
    LET one == <<[exp |-> 1, session |-> 1, row |-> 0, src |-> 1, id |-> 1]>>
    IN {[built |-> TRUE, neurons |-> one, frames |-> TrainColumns(NumRepeats, t \div NumRepeats)],
        [built |-> TRUE, neurons |-> one,
         frames |-> TestColumns(NumRepeats, t \div NumRepeats, t)]}

SplitInputs ==
    {[summary |-> SizedTable(1, 1), list_mice |-> {1}, timesteps |-> in[1],
      cfg |-> [DefaultCfg EXCEPT !.split_flag = in[2], !.test_repeat = in[3],
                                 !.preload = in[4].built],
      cache |-> in[4]] :
        in \in {x \in (0..MaxT) \X {"train", "test", "valid"} \X (0..(NumRepeats + 1))
                        \X ({NoNeural} \cup UNION {Caches(t) : t \in 0..MaxT}) :
                    x[4].built => x[4] \in Caches(x[1])}}

\* the label file holds one label per frame of one repeat
FramesOf(t) == [i \in 1..(t \div NumRepeats) |-> i - 1]

InitFrom(in) ==
    /\ summary = in.summary
    /\ list_mice = in.list_mice
    /\ timesteps = in.timesteps
    /\ frame_feature = FramesOf(in.timesteps)
    /\ cache = in.cache
    /\ cfg = in.cfg
    /\ pc = "start"
    /\ err = "none"
    /\ pseudo_mice = NoMatrix
    /\ indices = NoIndices
    /\ used = {}
    /\ movie_len = 0
    /\ sampler = 0
    /\ neurons_indices = <<>>
    /\ neural = NoNeural
    /\ index = <<>>
    /\ prev = NoPrev

InitPseudo == \E in \in PseudoInputs : InitFrom(in)
NextPseudo == GetPseudoMice
SpecPseudo == InitPseudo /\ [][NextPseudo]_vars

InitSample == \E in \in SampleInputs : InitFrom(in)
NextSample ==
    \/ GetPseudoMice
    \/ GetPseudoMiceDisjoint
    \/ SampleNeurons
    \/ SampleNeuronsDisjoint
    \/ Split
    \/ GetIndex
    \/ Reconstruct
SpecSample == InitSample /\ [][NextSample]_vars

InitSplit == \E in \in SplitInputs : InitFrom(in)
NextSplit ==
    \/ GetPseudoMice
    \/ SampleNeurons
    \/ Split
    \/ LoadPreload
SpecSplit == InitSplit /\ [][NextSplit]_vars

Init == InitPseudo \/ InitSample \/ InitSplit
Next ==
    \/ GetPseudoMice
    \/ GetPseudoMiceDisjoint
    \/ SampleNeurons
    \/ SampleNeuronsDisjoint
    \/ Split
    \/ GetIndex
    \/ LoadPreload
    \/ Reconstruct
Spec == Init /\ [][Next]_vars

\* ---------------------------------------------------------------------
\* Properties of _get_pseudo_mice
\* ---------------------------------------------------------------------
FromSource == cfg.cls \in {"movie", "movies"} /\ ~cfg.preload
HasExcludedMarker(row) ==
    Contains(row.cre_line, SSt) \/ Contains(row.cre_line, Pvalb) \/ Contains(row.cre_line, Vip)
CommonSize == [c \in FilteredContainers |-> Cardinality(common_neurons(NeuronsOf(c)))]
ThreeSessions(c) == Len(RowsOf(c)) = NumSessions

\* C1: for every processed container the three position lists have the length
\* of the common set, and entry p of each list points, in its own session's id
\* list, at the same neuron id.
C1_Correspondence ==
    pseudo_mice.built =>
    \A c \in DOMAIN indices :
        LET neurons == NeuronsOf(c)
            ix == indices[c]
            L == Cardinality(common_neurons(neurons))
        IN /\ \A j \in 1..NumSessions : Len(ix[j]) = L
           /\ \A p \in 1..L :
                /\ neurons[1][ix[1][p] + 1] = neurons[2][ix[2][p] + 1]
                /\ neurons[2][ix[2][p] + 1] = neurons[3][ix[3][p] + 1]

\* C2 as stated: the returned matrix has as many rows as the sum of the sizes
\* of the included containers' common sets.
C2_RowsEqualSum ==
    (FromSource /\ pseudo_mice.built)
        => Len(pseudo_mice.rows) = SumOver(FilteredContainers, CommonSize)

\* C2 amended: the returned matrix has three times as many rows as the sum of
\* the sizes of the included containers' common sets (the aligned rows of each
\* of the three sessions are stacked); a container with an empty common set
\* contributes no row, and a build over a non-empty set of containers that
\* all have three sessions returns a matrix.
C2_RowsEqualThreeTimesSum ==
    /\ (FromSource /\ pseudo_mice.built)
         => /\ Len(pseudo_mice.rows) = NumSessions * SumOver(FilteredContainers, CommonSize)
            /\ \A c \in FilteredContainers :
                 CommonSize[c] = 0
                   => \A p \in DOMAIN pseudo_mice.rows : pseudo_mice.rows[p].exp # c
    /\ (FromSource /\ pc # "start" /\ FilteredContainers # {}
          /\ \A c \in FilteredContainers : ThreeSessions(c))
         => pseudo_mice.built

C2_Witness ==
    /\ FromSource /\ pseudo_mice.built
    /\ Cardinality(FilteredContainers) > 1
    /\ \E c \in FilteredContainers : CommonSize[c] = 0
    /\ \E c \in FilteredContainers : CommonSize[c] > 0

\* C3: no summary row whose cre_line contains an excluded marker enters a
\* common-neuron computation or contributes a row to the pseudomouse.
C3_ExcludedNeverUsed ==
    /\ \A i \in used : ~HasExcludedMarker(summary[i])
    /\ \A p \in DOMAIN pseudo_mice.rows : ~HasExcludedMarker(summary[pseudo_mice.rows[p].src])

\* C10: when an included container does not have exactly three rows in the
\* summary table, _get_pseudo_mice raises and returns no matrix.
C10_SessionCount ==
    (FromSource /\ pc # "start" /\ \E c \in FilteredContainers : ~ThreeSessions(c))
        => /\ pc = "error"
           /\ err # "none"
           /\ ~pseudo_mice.built

C10_Witness ==
    /\ FromSource /\ pc = "error"
    /\ \E c \in FilteredContainers : Len(RowsOf(c)) > NumSessions
    /\ \E c \in FilteredContainers : ThreeSessions(c)

\* ---------------------------------------------------------------------
\* Properties of the sampling and of the split
\* ---------------------------------------------------------------------
Decoding == cfg.cls \in {"movies", "disjoint"}
DidSample == pc \in {"sampled", "done"}
shape0 == Len(pseudo_mice.rows)
repeat_len == timesteps \div NumRepeats
\* the size of the half the disjoint split takes its neurons from
HalfSize(n, g) == IF g = 0 THEN n - (n \div 2) ELSE n \div 2
\* the earlier dataset of the pair was sampled from a matrix of the same size
\* (Reconstruct keeps the seed and num_neurons)
SamePopulation == prev.built /\ prev.shape0 = shape0

\* C4: a constructed decoding dataset has 9 x repeat_len label rows for the
\* train split and 1 x repeat_len for the test split, and as many label rows
\* as rows of its neural tensor.
C4_LabelsAligned ==
    (Decoding /\ pc = "done")
        => /\ cfg.split_flag = "train" => Len(index) = TrainRepeats * repeat_len
           /\ cfg.split_flag = "test" => Len(index) = TestRepeats * repeat_len
           /\ Len(index) = Len(neural.frames)

C6_DisjointGroups ==
    (cfg.cls = "disjoint" /\ DidSample)
        => LET S == ToSet(neurons_indices) IN
           /\ Len(neurons_indices) <= cfg.num_neurons
           /\ S \subseteq 0..(shape0 - 1)
           /\ Cardinality(S) = Len(neurons_indices)
           /\ (SamePopulation /\ prev.cfg.group # cfg.group)
                => /\ S \cap ToSet(prev.neurons_indices) = {}
                   /\ Cardinality(S \cup ToSet(prev.neurons_indices)) <= shape0

C6_Witness ==
    /\ cfg.cls = "disjoint" /\ pc = "sampled"
    /\ SamePopulation /\ prev.cfg.group # cfg.group
    /\ shape0 % 2 = 1
    /\ Len(neurons_indices) > 0
    /\ Len(prev.neurons_indices) > Len(neurons_indices)

\* C7: a second sampling with the same seed, N, num_neurons and group returns
\* the sequence the first returned; every index is of [0, N), and the choice
\* with replacement returns exactly num_neurons indices.
C7_Reproducible ==
    DidSample
        => /\ ToSet(neurons_indices) \subseteq 0..(shape0 - 1)
           /\ cfg.cls \in {"movie", "movies"} => Len(neurons_indices) = cfg.num_neurons
           /\ (SamePopulation /\ prev.cfg.group = cfg.group)
                => neurons_indices = prev.neurons_indices

C7_Witness ==
    /\ pc = "sampled" /\ cfg.cls = "movies"
    /\ SamePopulation /\ prev.cfg.split_flag # cfg.split_flag
    /\ Cardinality(ToSet(neurons_indices)) > 1
    /\ Cardinality(ToSet(neurons_indices)) < Len(neurons_indices)

\* C8: a sampling that asks for more neurons than the population holds (N
\* for the choice, the group's half for the disjoint split) returns nothing.
C8_OversizedRejected ==
    DidSample
        => cfg.num_neurons <= (IF cfg.cls = "disjoint" THEN HalfSize(shape0, cfg.group)
                               ELSE shape0)

\* C9: no decoding dataset is built from a split_flag other than "train" and
\* "test" or from a test_repeat outside 1..10.
C9_IllegalConfigFails ==
    (Decoding /\ (cfg.split_flag \notin {"train", "test"}
                    \/ cfg.test_repeat \notin 1..NumRepeats))
        => pc # "done" /\ ~neural.built

====
